---- MODULE Spec2Model ----
(***************************************************************************)
(* A model of tag_decomp.py: rerooting of a gene tree at the edge of the   *)
(* minimum score (get_min_root), tagging of its vertices as speciations or *)
(* duplications (tag), and the three ways of taking single-copy trees out  *)
(* of the tagged tree (decompose, trim, sample), followed by the output    *)
(* loop of main (unroot, suppress_unifurcations, newick, trivial).         *)
(*                                                                         *)
(* A tree is a record [root, children]: the root vertex and, for every     *)
(* vertex, the list of its children in child order, as treeswift keeps     *)
(* them (Node.children).  The parent of a vertex is read off the children  *)
(* lists.  Leaf labels are kept apart, in `label`: a label is the pair     *)
(* <<species, copy>>, standing for a string such as "A_1" of which         *)
(* split(delimiter)[0] is the species.                                     *)
(***************************************************************************)
EXTENDS Integers, Sequences, FiniteSets, TLC

\* Bounds of the model.
MaxLeaves == 4
BatchLeaves == 2
MaxLines == 2
Period == 3

MaxNodes == 2 * MaxLeaves - 1
Nodes == 1..MaxNodes
None == 0
NoLabel == <<0, 0>>

----------------------------------------------------------------------------
\* Lists, as Python's list operations act on Node.children.

Range(q) == {q[i] : i \in DOMAIN q}
Last(q) == q[Len(q)]
Front(q) == SubSeq(q, 1, Len(q) - 1)
Reverse(q) == [i \in 1..Len(q) |-> q[Len(q) + 1 - i]]
Max(S) == CHOOSE x \in S : \A y \in S : y <= x

\* list.remove(x): the first occurrence of x is taken out.
ListRemove(q, x) ==
    LET i == CHOOSE j \in 1..Len(q) : q[j] = x /\ \A k \in 1..(j - 1) : q[k] # x
    IN  SubSeq(q, 1, i - 1) \o SubSeq(q, i + 1, Len(q))

\* Node.remove_child and Node.add_child.
remove_child(ch, p, c) == [ch EXCEPT ![p] = ListRemove(@, c)]
add_child(ch, p, c) == [ch EXCEPT ![p] = Append(@, c)]

is_leaf(ch, n) == Len(ch[n]) = 0
get_parent(ch, n) ==
    IF \E p \in Nodes : n \in Range(ch[p])
    THEN CHOOSE p \in Nodes : n \in Range(ch[p])
    ELSE None

\* label.split(delimiter)[0]
Species(lab) == lab[1]

----------------------------------------------------------------------------
\* Traversals. treeswift's preorder pops a stack and pushes the children of
\* the vertex it popped, so the last child's subtree comes first; its
\* postorder fills a second stack in that order and pops it, so the whole
\* order is fixed before the first vertex is handed to the loop body.

RECURSIVE PreStack(_, _)
PreStack(ch, stack) ==
    IF stack = <<>> THEN <<>>
    ELSE LET n == Last(stack)
         IN  <<n>> \o PreStack(ch, Front(stack) \o ch[n])

traverse_preorder(ch, r) == PreStack(ch, <<r>>)
traverse_postorder(ch, r) == Reverse(PreStack(ch, <<r>>))

Subtree(ch, n) == Range(traverse_preorder(ch, n))
LeavesOf(ch, n) == {m \in Subtree(ch, n) : is_leaf(ch, m)}

----------------------------------------------------------------------------
\* Newick text. A line is a list of tokens: "(", ",", ")", ";" and one
\* token per leaf label.

Tok(c) == [c |-> c, label |-> NoLabel]
LeafTok(lab) == [c |-> "label", label |-> lab]

RECURSIVE NodeNewick(_, _, _)
RECURSIVE JoinNewick(_, _, _, _)
JoinNewick(ch, lab, kids, i) ==
    IF i > Len(kids) THEN <<>>
    ELSE (IF i > 1 THEN <<Tok(",")>> ELSE <<>>)
         \o NodeNewick(ch, lab, kids[i]) \o JoinNewick(ch, lab, kids, i + 1)
NodeNewick(ch, lab, n) ==
    IF is_leaf(ch, n) THEN <<LeafTok(lab[n])>>
    ELSE <<Tok("(")>> \o JoinNewick(ch, lab, ch[n], 1) \o <<Tok(")")>>

\* Tree.newick()
newick(t, lab) == NodeNewick(t.children, lab, t.root) \o <<Tok(";")>>

\* treeswift.read_tree_newick: one pass over the text; "(" opens a child of
\* the current vertex, "," a sibling of it, ")" goes back up.
RECURSIVE ParseFrom(_, _, _)
ParseFrom(text, i, st) ==
    IF i > Len(text) \/ text[i].c = ";" THEN st
    ELSE LET c == text[i].c
             up == get_parent(st.children, st.cur)
         IN  CASE c = "(" ->
                    ParseFrom(text, i + 1,
                        [st EXCEPT !.children = add_child(@, st.cur, st.next),
                                   !.cur = st.next, !.next = @ + 1])
               [] c = "," ->
                    ParseFrom(text, i + 1,
                        [st EXCEPT !.children = add_child(@, up, st.next),
                                   !.cur = st.next, !.next = @ + 1])
               [] c = ")" -> ParseFrom(text, i + 1, [st EXCEPT !.cur = up])
               [] OTHER ->
                    ParseFrom(text, i + 1,
                        [st EXCEPT !.label[st.cur] = text[i].label])

read_tree_newick(text) ==
    LET st == ParseFrom(text, 1,
                  [children |-> [n \in Nodes |-> <<>>],
                   label |-> [n \in Nodes |-> NoLabel], cur |-> 1, next |-> 2])
    IN  [tree |-> [root |-> 1, children |-> st.children], label |-> st.label]

----------------------------------------------------------------------------
\* The lines an input file may hold: every rooted binary tree of 2 to
\* MaxLeaves leaves, with every assignment of species to its leaves up to a
\* renaming of the species (the code only compares species for equality).

RECURSIVE Shapes(_)
Shapes(n) ==
    IF n = 1 THEN {<<>>}
    ELSE UNION {{<<l, r>> : l \in Shapes(k), r \in Shapes(n - k)} : k \in 1..(n - 1)}

SpeciesAssignments(n) ==
    {f \in [1..n -> 1..n] :
        f[1] = 1 /\ \A i \in 2..n : f[i] <= Max({f[j] : j \in 1..(i - 1)}) + 1}

RECURSIVE ShapeNewick(_, _, _)
ShapeNewick(t, f, first) ==
    IF t = <<>> THEN <<LeafTok(<<f[first], first>>)>>
    ELSE LET nl == (Len(ShapeNewick(t[1], f, first)) + 3) \div 4
         IN  <<Tok("(")>> \o ShapeNewick(t[1], f, first) \o <<Tok(",")>>
             \o ShapeNewick(t[2], f, first + nl) \o <<Tok(")")>>

LinesOf(n) ==
    {ShapeNewick(t, f, 1) \o <<Tok(";")>> : t \in Shapes(n), f \in SpeciesAssignments(n)}

AllLines == UNION {LinesOf(n) : n \in 2..MaxLeaves}
LineLeaves(text) == Cardinality({i \in 1..Len(text) : text[i].c = "label"})

----------------------------------------------------------------------------
\* Tree.suppress_unifurcations: breadth first from the root, a vertex with
\* one child is replaced by that child, which goes to the end of the
\* parent's children.

RECURSIVE SuppressLoop(_, _)
SuppressLoop(t, q) ==
    IF q = <<>> THEN t
    ELSE LET node == Head(q)
             ch == t.children
         IN  IF Len(ch[node]) # 1
             THEN SuppressLoop(t, Tail(q) \o ch[node])
             ELSE LET child == ch[node][1]
                      cut == [ch EXCEPT ![node] = <<>>]
                      parent == get_parent(ch, node)
                  IN  IF node = t.root
                      THEN SuppressLoop([root |-> child, children |-> cut],
                                        Tail(q) \o <<child>>)
                      ELSE SuppressLoop(
                               [root |-> t.root,
                                children |->
                                    add_child(remove_child(cut, parent, node), parent, child)],
                               Tail(q) \o <<child>>)

suppress_unifurcations(t) == SuppressLoop(t, <<t.root>>)

----------------------------------------------------------------------------
\* get_min_root

\* Penalty with nothing added where one side's species include the
\* other's without being the same.
PenaltyNestedFree(a, b) ==
    IF (a \cap b) # {}
    THEN IF (a \cup b) = a \/ (a \cup b) = b
         THEN IF a = b THEN 1 ELSE 0
         ELSE 3
    ELSE 0

\* The score added at a vertex whose two sides carry the species sets a, b.
Penalty(a, b) ==
    IF (a \cap b) # {}
    THEN IF (a \cup b) = a \/ (a \cup b) = b
         THEN IF a = b THEN 1 ELSE 2
         ELSE 3
    ELSE 0

\* The down pass: postorder, down sets and down scores.
RECURSIVE DownLoop(_, _, _, _, _)
DownLoop(ch, lab, order, i, acc) ==
    IF i > Len(order) THEN acc
    ELSE LET node == order[i]
         IN  IF is_leaf(ch, node)
             THEN DownLoop(ch, lab, order, i + 1,
                      [acc EXCEPT !.down[node] = {Species(lab[node])},
                                  !.d_score[node] = 0])
             ELSE LET left == ch[node][1]
                      right == ch[node][2]
                  IN  DownLoop(ch, lab, order, i + 1,
                          [acc EXCEPT
                              !.down[node] = acc.down[left] \cup acc.down[right],
                              !.d_score[node] =
                                  acc.d_score[left] + acc.d_score[right]
                                  + Penalty(acc.down[left], acc.down[right])])

DownPass(t, lab) ==
    DownLoop(t.children, lab, traverse_postorder(t.children, t.root), 1,
        [down |-> [n \in Nodes |-> {}], d_score |-> [n \in Nodes |-> 0]])

\* The up pass: preorder over the vertices that are neither the root nor
\* one of its children; a vertex becomes best_root only on a strictly
\* lower total.
RECURSIVE UpLoop(_, _, _, _, _)
UpLoop(ch, dn, order, i, acc) ==
    IF i > Len(order) THEN acc
    ELSE LET node == order[i]
         IN  IF acc.skip[node] THEN UpLoop(ch, dn, order, i + 1, acc)
             ELSE LET parent == get_parent(ch, node)
                      other == IF ch[parent][1] # node THEN ch[parent][1]
                               ELSE ch[parent][2]
                      u_score == acc.u_score[parent] + dn.d_score[other]
                                 + Penalty(acc.up[parent], dn.down[other])
                      up == acc.up[parent] \cup dn.down[other]
                      total_score == u_score + dn.d_score[node]
                      better == total_score < acc.min_score
                  IN  UpLoop(ch, dn, order, i + 1,
                          [acc EXCEPT !.u_score[node] = u_score,
                                      !.up[node] = up,
                                      !.min_score =
                                          IF better THEN total_score ELSE @,
                                      !.best_root = IF better THEN node ELSE @])

get_min_root(t, lab) ==
    LET ch == t.children
        dn == DownPass(t, lab)
        left == ch[t.root][1]
        right == ch[t.root][2]
        start ==
            [up |-> [n \in Nodes |-> IF n = left THEN dn.down[right]
                                     ELSE IF n = right THEN dn.down[left] ELSE {}],
             u_score |-> [n \in Nodes |-> IF n = left THEN dn.d_score[right]
                                          ELSE IF n = right THEN dn.d_score[left]
                                          ELSE 0],
             skip |-> [n \in Nodes |-> n \in {t.root, left, right}],
             min_score |-> dn.d_score[right] + dn.d_score[left],
             best_root |-> left]
        res == UpLoop(ch, dn, traverse_preorder(ch, t.root), 1, start)
    IN  [best_root |-> res.best_root, min_score |-> res.min_score,
         d_score |-> dn.d_score, u_score |-> res.u_score, skip |-> res.skip]

\* Tree.reroot, as get_min_root's caller means it: the tree is rooted on the
\* edge above `node`. The vertices between the old root and `node` turn
\* around, the old root leaves the path, and the root vertex gets `node` and
\* the former parent of `node` as its children.
Sibling(ch, n) ==
    LET p == get_parent(ch, n)
    IN  IF ch[p][1] # n THEN ch[p][1] ELSE ch[p][2]

reroot(t, node) ==
    LET ch == t.children
        r == t.root
        path == {a \in Nodes \ {r, node} : node \in Subtree(ch, a)}
        toward(a) == CHOOSE c \in Range(ch[a]) : node \in Subtree(ch, c)
        above(a) == IF get_parent(ch, a) = r THEN Sibling(ch, a)
                    ELSE get_parent(ch, a)
    IN  IF node = r \/ get_parent(ch, node) = r THEN t
        ELSE [root |-> r,
              children |->
                  [n \in Nodes |->
                      IF n = r THEN <<node, get_parent(ch, node)>>
                      ELSE IF n \in path
                           THEN <<Sibling(ch, toward(n)), above(n)>>
                           ELSE ch[n]]]

----------------------------------------------------------------------------
\* tag

RECURSIVE TagLoop(_, _, _, _, _)
TagLoop(ch, lab, order, i, acc) ==
    IF i > Len(order) THEN acc
    ELSE LET node == order[i]
         IN  IF is_leaf(ch, node)
             THEN TagLoop(ch, lab, order, i + 1,
                      [acc EXCEPT !.s[node] = {Species(lab[node])}])
             ELSE LET left == ch[node][1]
                      right == ch[node][2]
                      dup == (acc.s[left] \cap acc.s[right]) # {}
                  IN  TagLoop(ch, lab, order, i + 1,
                          [acc EXCEPT
                              !.s[node] = acc.s[left] \cup acc.s[right],
                              !.tag[node] = IF dup THEN "D" ELSE "S",
                              !.n_dup = IF dup THEN @ + 1 ELSE @])

tag_tree(t, lab) ==
    LET t1 == suppress_unifurcations(t)
        res == TagLoop(t1.children, lab, traverse_postorder(t1.children, t1.root), 1,
                   [s |-> [n \in Nodes |-> {}], tag |-> [n \in Nodes |-> "-"],
                    n_dup |-> 0])
    IN  [tree |-> t1, s |-> res.s, tag |-> res.tag, n_dup |-> res.n_dup]

----------------------------------------------------------------------------
\* decompose

\* Tree.extract_subtree: a copy of the subtree hanging from `node`.
extract_subtree(ch, node) ==
    [root |-> node,
     children |-> [m \in Nodes |-> IF m \in Subtree(ch, node) THEN ch[m] ELSE <<>>]]

\* ChooseDelete with <= for <: on equal numbers the first child goes.
ChooseDeleteFirstOnTie(sp, left, right) ==
    IF Cardinality(sp[left]) <= Cardinality(sp[right]) THEN left ELSE right

\* The child a duplication vertex loses.
ChooseDelete(sp, left, right) ==
    IF Cardinality(sp[left]) < Cardinality(sp[right]) THEN left ELSE right

\* Whether the child that is removed is also put out as a tree.
EmitsClade(sp, left, right, max_only, no_subsets) ==
    ~max_only /\ ~((sp[right] \subseteq sp[left]) /\ no_subsets)

\* Detach that leaves the child where it is.
DetachNothing(ch, node, child) == ch

\* decompose, line 169: node.remove_child(delete)
Detach(ch, node, child) == remove_child(ch, node, child)

RECURSIVE DecomposeLoop(_, _, _, _, _, _, _)
DecomposeLoop(sp, tg, max_only, no_subsets, order, i, acc) ==
    IF i > Len(order) THEN acc
    ELSE LET node == order[i]
             ch == acc.children
         IN  IF is_leaf(ch, node) \/ tg[node] # "D"
             THEN DecomposeLoop(sp, tg, max_only, no_subsets, order, i + 1, acc)
             ELSE LET left == ch[node][1]
                      right == ch[node][2]
                      del == ChooseDelete(sp, left, right)
                  IN  DecomposeLoop(sp, tg, max_only, no_subsets, order, i + 1,
                          [children |-> Detach(ch, node, del),
                           delete |-> [acc.delete EXCEPT ![node] = del],
                           out |-> IF EmitsClade(sp, left, right, max_only, no_subsets)
                                   THEN Append(acc.out, extract_subtree(ch, del))
                                   ELSE acc.out])

decompose(t, sp, tg, max_only, no_subsets) ==
    LET res == DecomposeLoop(sp, tg, max_only, no_subsets,
                   traverse_postorder(t.children, t.root), 1,
                   [children |-> t.children, delete |-> [n \in Nodes |-> None],
                    out |-> <<>>])
        rest == suppress_unifurcations([root |-> t.root, children |-> res.children])
    IN  [tree |-> rest, delete |-> res.delete, out |-> Append(res.out, rest)]

----------------------------------------------------------------------------
\* trim

RECURSIVE TrimClade(_, _, _, _, _, _)
TrimClade(sp, lab, to_delete, order, i, ch) ==
    IF i > Len(order) THEN ch
    ELSE LET v == order[i]
         IN  IF (sp[v] \subseteq to_delete) \/ (is_leaf(ch, v) /\ lab[v] = NoLabel)
             THEN TrimClade(sp, lab, to_delete, order, i + 1,
                      remove_child(ch, get_parent(ch, v), v))
             ELSE TrimClade(sp, lab, to_delete, order, i + 1, ch)

RECURSIVE TrimLoop(_, _, _, _, _, _)
TrimLoop(sp, tg, lab, order, i, ch) ==
    IF i > Len(order) THEN ch
    ELSE LET node == order[i]
         IN  IF is_leaf(ch, node) \/ tg[node] # "D"
             THEN TrimLoop(sp, tg, lab, order, i + 1, ch)
             ELSE LET left == ch[node][1]
                      right == ch[node][2]
                      to_delete == sp[left] \cap sp[right]
                      smallest == IF Cardinality(sp[left]) < Cardinality(sp[right])
                                  THEN left ELSE right
                  IN  TrimLoop(sp, tg, lab, order, i + 1,
                          TrimClade(sp, lab, to_delete,
                              traverse_postorder(ch, smallest), 1, ch))

trim(t, sp, tg, lab) ==
    [root |-> t.root,
     children |-> TrimLoop(sp, tg, lab, traverse_postorder(t.children, t.root), 1,
                      t.children)]

----------------------------------------------------------------------------
\* sample

\* random_seed that leaves the generator as it is.
random_seed_kept(state) == state

\* random.seed(0)
Seed == 0
random_seed(state) == Seed

\* The pseudo-random generator: its state is the number of draws since it
\* was seeded, counted round a cycle of Period draws; `bits` is what the
\* generator seeded with 0 puts out along the cycle.
\* random.choice(q) takes one draw.
random_choice(bits, state, q) == q[(bits[state + 1] % Len(q)) + 1]
random_next(state) == (state + 1) % Period

\* Lines 228-232: at every duplication vertex one child, drawn at random,
\* is noted in node.delete and removed.
RECURSIVE RemoveLoop(_, _, _, _, _)
RemoveLoop(tg, bits, order, i, acc) ==
    IF i > Len(order) THEN acc
    ELSE LET node == order[i]
             ch == acc.children
         IN  IF is_leaf(ch, node) \/ tg[node] # "D"
             THEN RemoveLoop(tg, bits, order, i + 1, acc)
             ELSE LET pick == random_choice(bits, acc.rng, ch[node])
                  IN  RemoveLoop(tg, bits, order, i + 1,
                          [children |-> remove_child(ch, node, pick),
                           delete |-> [acc.delete EXCEPT ![node] = pick],
                           rng |-> random_next(acc.rng)])

\* RestoreLoop with the children of a vertex put on the stack before the
\* loop body has run for it: a child given back is not visited.
RECURSIVE RestoreLoopEager(_, _, _, _)
RestoreLoopEager(tg, del, ch, stack) ==
    IF stack = <<>> THEN ch
    ELSE LET n == Last(stack)
             ch1 == IF ~is_leaf(ch, n) /\ tg[n] = "D"
                    THEN add_child(ch, n, del[n]) ELSE ch
         IN  RestoreLoopEager(tg, del, ch1, Front(stack) \o ch[n])

\* Lines 234-236: preorder; the children of a vertex go on the stack after
\* the loop body has run for it, so a child that was just given back is
\* visited as well.
RECURSIVE RestoreLoop(_, _, _, _)
RestoreLoop(tg, del, ch, stack) ==
    IF stack = <<>> THEN ch
    ELSE LET n == Last(stack)
             ch1 == IF ~is_leaf(ch, n) /\ tg[n] = "D"
                    THEN add_child(ch, n, del[n]) ELSE ch
         IN  RestoreLoop(tg, del, ch1, Front(stack) \o ch1[n])

\* SampleOnce with the copy taken after the children were given back.
SampleOnceLate(t, tg, lab, del, bits, state) ==
    LET cut == RemoveLoop(tg, bits, traverse_postorder(t.children, t.root), 1,
                   [children |-> t.children, delete |-> del, rng |-> state])
        whole == RestoreLoop(tg, cut.delete, cut.children, <<t.root>>)
    IN  [tree |-> [root |-> t.root, children |-> whole],
         delete |-> cut.delete, rng |-> cut.rng,
         copy |-> read_tree_newick(newick([root |-> t.root, children |-> whole], lab))]

\* One pass of the loop of lines 227-236.
SampleOnce(t, tg, lab, del, bits, state) ==
    LET cut == RemoveLoop(tg, bits, traverse_postorder(t.children, t.root), 1,
                   [children |-> t.children, delete |-> del, rng |-> state])
        copy == read_tree_newick(newick([root |-> t.root, children |-> cut.children], lab))
    IN  [tree |-> [root |-> t.root,
                   children |-> RestoreLoop(tg, cut.delete, cut.children, <<t.root>>)],
         delete |-> cut.delete, rng |-> cut.rng, copy |-> copy]

n_samples(method, dups) == IF method = "linear" THEN dups ELSE 2 ^ dups

----------------------------------------------------------------------------
\* unroot, trivial

\* Node.contract: the children of the vertex go to its parent, then the
\* vertex is removed from its parent.
RECURSIVE GiveChildren(_, _, _, _)
GiveChildren(ch, parent, kids, i) ==
    IF i > Len(kids) THEN ch
    ELSE GiveChildren(add_child(ch, parent, kids[i]), parent, kids, i + 1)

contract(ch, node) ==
    LET parent == get_parent(ch, node)
    IN  IF parent = None THEN ch
        ELSE remove_child(
                 GiveChildren([ch EXCEPT ![node] = <<>>], parent, ch[node], 1),
                 parent, node)

unroot(t) ==
    LET ch == t.children
    IN  IF t.root = None THEN t
        ELSE IF Len(ch[t.root]) = 2
             THEN LET left == ch[t.root][1]
                      right == ch[t.root][2]
                  IN  IF ~is_leaf(ch, right)
                      THEN [t EXCEPT !.children = contract(ch, right)]
                      ELSE IF ~is_leaf(ch, left)
                           THEN [t EXCEPT !.children = contract(ch, left)]
                           ELSE t
             ELSE t

RECURSIVE TrivialLoop(_, _, _)
TrivialLoop(newick_str, i, count) ==
    IF i > Len(newick_str) THEN TRUE
    ELSE LET count1 == IF newick_str[i].c = "(" THEN count + 1 ELSE count
         IN  IF count1 > 1 THEN FALSE ELSE TrivialLoop(newick_str, i + 1, count1)

trivial(newick_str) == TrivialLoop(newick_str, 1, 0)

----------------------------------------------------------------------------
\* The state of a run of main.

VARIABLES
    pc,          \* where main stands in its loop body
    args,        \* the parsed command line
    fileLeaves,  \* no line of the input file has more leaves than this
    unread,      \* lines of the input file not read yet
    lineNo,      \* number of the line in hand
    line,        \* the line in hand
    tree,        \* tree: [root, children]
    label,       \* the labels of the vertices of tree
    best_root,   \* what get_min_root returned
    min_score,   \* min_score when get_min_root returned
    s,           \* node.s
    tag,         \* node.tag
    n_dup,       \* tree.n_dup
    delete,      \* node.delete (sample), the local delete at a vertex (decompose)
    mode,        \* which of trim, sample, decompose was called
    out,         \* out: a list of [tree, label]
    n_sample,    \* n_sample of sample
    iter,        \* passes of sample's loop done
    rng,         \* state of the random module's generator
    entry_rng,   \* state of the generator when sample was entered
    stream,      \* the draws of the generator seeded with 0, <<>> before the first seeding
    fo           \* lines written to the output file for the line in hand

vars == <<pc, args, fileLeaves, unread, lineNo, line, tree, label, best_root,
          min_score, s, tag, n_dup, delete, mode, out, n_sample, iter, rng,
          entry_rng, stream, fo>>

input == <<args, fileLeaves>>
rooting == <<best_root, min_score>>
tagging == <<s, tag, n_dup>>
sampling == <<n_sample, iter, rng, entry_rng, stream>>

NoTree == [root |-> None, children |-> [n \in Nodes |-> <<>>]]

Methods == {"linear", "exp"}
ArgSets ==
    [trim : BOOLEAN, random_sample : BOOLEAN, max_only : BOOLEAN,
     no_subsets : BOOLEAN, rand_sampling_method : Methods]

InitRun ==
    /\ pc = "read"
    /\ lineNo = 0
    /\ line = <<>>
    /\ tree = NoTree
    /\ label = [n \in Nodes |-> NoLabel]
    /\ best_root = None
    /\ min_score = 0
    /\ s = [n \in Nodes |-> {}]
    /\ tag = [n \in Nodes |-> "-"]
    /\ n_dup = 0
    /\ delete = [n \in Nodes |-> None]
    /\ mode = "-"
    /\ out = <<>>
    /\ n_sample = 0
    /\ iter = 0
    /\ entry_rng = rng
    /\ stream = <<>>
    /\ fo = <<>>

\* main on a file of one line. The random module starts a run with its
\* generator seeded from the system: in any state.
Init ==
    /\ rng \in 0..(Period - 1)
    /\ InitRun
    /\ args \in ArgSets
    /\ fileLeaves = MaxLeaves
    /\ unread = 1

\* main in sampling mode on a file of several small trees.
InitBatch ==
    /\ rng \in 0..(Period - 1)
    /\ InitRun
    /\ args \in {a \in ArgSets : ~a.trim /\ ~a.max_only /\ ~a.no_subsets}
    /\ fileLeaves = BatchLeaves
    /\ unread = MaxLines

\* A single call of one of the functions, on a file of one line, made with
\* the generator in its seed state.
InitCall ==
    /\ rng = Seed
    /\ InitRun
    /\ args = [trim |-> FALSE, random_sample |-> FALSE, max_only |-> FALSE,
               no_subsets |-> FALSE, rand_sampling_method |-> "linear"]
    /\ fileLeaves = MaxLeaves
    /\ unread = 1

----------------------------------------------------------------------------
\* main, lines 268-269: the next line is read and parsed.
ReadTree ==
    /\ pc = "read"
    /\ unread > 0
    /\ \E text \in AllLines :
        /\ LineLeaves(text) <= fileLeaves
        /\ line' = text
        /\ tree' = read_tree_newick(text).tree
        /\ label' = read_tree_newick(text).label
    /\ unread' = unread - 1
    /\ lineNo' = lineNo + 1
    /\ best_root' = None
    /\ min_score' = 0
    /\ s' = [n \in Nodes |-> {}]
    /\ tag' = [n \in Nodes |-> "-"]
    /\ n_dup' = 0
    /\ delete' = [n \in Nodes |-> None]
    /\ mode' = "-"
    /\ out' = <<>>
    /\ n_sample' = 0
    /\ iter' = 0
    /\ fo' = <<>>
    /\ pc' = "parsed"
    /\ UNCHANGED <<input, rng, entry_rng, stream>>

\* main, line 270: get_min_root(tree, args.delimiter)
GetMinRoot ==
    /\ pc = "parsed"
    /\ best_root' = get_min_root(tree, label).best_root
    /\ min_score' = get_min_root(tree, label).min_score
    /\ pc' = "minroot"
    /\ UNCHANGED <<input, unread, lineNo, line, tree, label, tagging, delete, mode,
                   out, sampling, fo>>

\* main, line 270: tree.reroot(...)
Reroot ==
    /\ pc = "minroot"
    /\ tree' = reroot(tree, best_root)
    /\ pc' = "rerooted"
    /\ UNCHANGED <<input, unread, lineNo, line, label, rooting, tagging, delete,
                   mode, out, sampling, fo>>

TagStep ==
    LET res == tag_tree(tree, label)
    IN  /\ tree' = res.tree
        /\ s' = res.s
        /\ tag' = res.tag
        /\ n_dup' = res.n_dup
        /\ pc' = "tagged"
        /\ UNCHANGED <<input, unread, lineNo, line, label, rooting, delete, mode,
                       out, sampling, fo>>

\* main, line 271: tag(tree, args.delimiter)
Tag == pc = "rerooted" /\ TagStep

\* tag called on a tree as it was read.
CallTag == pc = "parsed" /\ TagStep

\* trim(tree), and the list main makes of its result.
TrimStep ==
    LET res == trim(tree, s, tag, label)
    IN  /\ tree' = res
        /\ out' = <<[tree |-> res, label |-> label]>>
        /\ mode' = "trim"
        /\ pc' = "emit"
        /\ UNCHANGED <<delete, sampling>>

\* decompose(tree, max_only, no_subsets)
DecomposeStep(max_only, no_subsets) ==
    LET res == decompose(tree, s, tag, max_only, no_subsets)
    IN  /\ tree' = res.tree
        /\ delete' = res.delete
        /\ out' = [i \in 1..Len(res.out) |-> [tree |-> res.out[i], label |-> label]]
        /\ mode' = "decompose"
        /\ pc' = "emit"
        /\ UNCHANGED sampling

\* sample, lines 217-225: the generator is seeded and n_sample is set.
SampleEnter(method) ==
    /\ entry_rng' = rng
    /\ rng' = random_seed(rng)
    /\ stream' \in IF stream = <<>> THEN [1..Period -> {0, 1}] ELSE {stream}
    /\ n_sample' = n_samples(method, n_dup)
    /\ iter' = 0
    /\ out' = <<>>
    /\ mode' = "sample"
    /\ pc' = "sampling"
    /\ UNCHANGED <<tree, delete>>

\* Whether args.random_sample "is not None": argparse's store_true leaves
\* True or False there.
IsNotNone(v) == v \in BOOLEAN

\* main, lines 272-277.
Dispatch ==
    /\ pc = "tagged"
    /\ IF args.trim THEN TrimStep
       ELSE IF IsNotNone(args.random_sample)
            THEN SampleEnter(args.rand_sampling_method)
            ELSE DecomposeStep(args.max_only, args.no_subsets)
    /\ UNCHANGED <<input, unread, lineNo, line, label, rooting, tagging, fo>>

\* decompose called on a tagged tree.
CallDecompose ==
    /\ pc = "tagged"
    /\ \E max_only \in BOOLEAN, no_subsets \in BOOLEAN :
        /\ args' = [args EXCEPT !.max_only = max_only, !.no_subsets = no_subsets]
        /\ DecomposeStep(max_only, no_subsets)
    /\ UNCHANGED <<fileLeaves, unread, lineNo, line, label, rooting, tagging, fo>>

\* sample called on a tagged tree.
CallSample ==
    /\ pc = "tagged"
    /\ \E method \in Methods :
        /\ args' = [args EXCEPT !.rand_sampling_method = method]
        /\ SampleEnter(method)
    /\ UNCHANGED <<fileLeaves, unread, lineNo, line, label, rooting, tagging, fo>>

\* sample, lines 227-236: one pass of the loop.
SampleIter ==
    /\ pc = "sampling"
    /\ iter < n_sample
    /\ LET res == SampleOnce(tree, tag, label, delete, stream, rng)
       IN  /\ tree' = res.tree
           /\ delete' = res.delete
           /\ rng' = res.rng
           /\ out' = Append(out, res.copy)
    /\ iter' = iter + 1
    /\ UNCHANGED <<pc, input, unread, lineNo, line, label, rooting, tagging, mode,
                   n_sample, entry_rng, stream, fo>>

\* sample, line 237
SampleReturn ==
    /\ pc = "sampling"
    /\ iter = n_sample
    /\ pc' = "emit"
    /\ UNCHANGED <<input, unread, lineNo, line, tree, label, rooting, tagging,
                   delete, mode, out, sampling, fo>>

\* main, lines 278-283, for the first tree of out not handled yet.
Emitted(t) ==
    LET u == suppress_unifurcations(unroot(t.tree))
    IN  newick(u, t.label)

Emit ==
    /\ pc = "emit"
    /\ out # <<>>
    /\ LET nwck == Emitted(Head(out))
       IN  fo' = IF ~trivial(nwck) THEN Append(fo, nwck) ELSE fo
    /\ out' = Tail(out)
    /\ UNCHANGED <<pc, input, unread, lineNo, line, tree, label, rooting, tagging,
                   delete, mode, sampling>>

\* main, line 268: back to the head of the loop.
EndTree ==
    /\ pc = "emit"
    /\ out = <<>>
    /\ pc' = "read"
    /\ UNCHANGED <<input, unread, lineNo, line, tree, label, rooting, tagging,
                   delete, mode, out, sampling, fo>>

Next ==
    \/ ReadTree
    \/ GetMinRoot
    \/ Reroot
    \/ Tag
    \/ Dispatch
    \/ SampleIter
    \/ SampleReturn
    \/ Emit
    \/ EndTree

Spec == Init /\ [][Next]_vars
SpecBatch == InitBatch /\ [][Next]_vars

NextRoot == ReadTree \/ GetMinRoot \/ Reroot \/ Tag
SpecRoot == InitCall /\ [][NextRoot]_vars

NextDecompose == ReadTree \/ CallTag \/ CallDecompose
SpecDecompose == InitCall /\ [][NextDecompose]_vars

NextSample == ReadTree \/ CallTag \/ CallSample \/ SampleIter \/ SampleReturn
SpecSample == InitCall /\ [][NextSample]_vars

----------------------------------------------------------------------------
\* What the properties below speak of.

\* The tree of the line in hand, as it was read.
Parsed == read_tree_newick(line).tree

\* The labels of the leaves of an output tree.
LeafLabels(t) == {t.label[m] : m \in LeavesOf(t.tree.children, t.tree.root)}

\* The vertices of the tree in hand that stand for an edge: all but the root.
Edges == Subtree(tree.children, tree.root) \ {tree.root}

\* The score of the rooting on the edge above v, from scratch: the tree is
\* rerooted there and a down pass is run on the result.
BruteScore(v) ==
    LET t == reroot(tree, v)
    IN  DownPass(t, label).d_score[t.root]

\* The total get_min_root works out for the edge above v.
TotalScore(v) ==
    LET g == get_min_root(tree, label)
        left == tree.children[tree.root][1]
        right == tree.children[tree.root][2]
    IN  IF g.skip[v] THEN g.d_score[right] + g.d_score[left]
        ELSE g.u_score[v] + g.d_score[v]

\* n_dup after rerooting on the edge above v and tagging.
DupsRootedAt(v) == tag_tree(reroot(tree, v), label).n_dup

Dups == {n \in Nodes : tag[n] = "D"}

----------------------------------------------------------------------------
\* C1: in main's dispatch the mode that runs follows the flags: trim when
\* trim is set, sample only when random_sample is set and trim is not, and
\* decompose when neither flag is set.
C1_ModeFollowsFlags ==
    mode # "-" =>
        mode = (IF args.trim THEN "trim"
                ELSE IF args.random_sample THEN "sample" ELSE "decompose")

\* C2: the total get_min_root has for the edge it returns is the score of
\* the tree rerooted on that edge and scored from scratch by a down pass,
\* and no other edge has a strictly lower score from scratch.
C2_MinScoreIsBruteForce ==
    pc = "minroot" =>
        /\ min_score = BruteScore(best_root)
        /\ \A v \in Edges : BruteScore(v) >= BruteScore(best_root)

\* C7: n_dup set by tag is the number of vertices tagged 'D', and every edge
\* whose total in get_min_root equals the minimum gives the same n_dup when
\* the tree is rerooted there and tagged.
C7_DupCount ==
    /\ pc = "tagged" => n_dup = Cardinality(Dups)
    /\ pc = "minroot" =>
          \A v \in Edges :
              TotalScore(v) = min_score => DupsRootedAt(v) = DupsRootedAt(best_root)

\* C7 witness: two different edges tie for the minimum, neither rooting is
\* free of duplications, and the tied edge is not the root edge.
C7_Witness ==
    /\ pc = "minroot"
    /\ \E v \in Edges :
          /\ v # best_root
          /\ ~get_min_root(tree, label).skip[v]
          /\ TotalScore(v) = min_score
          /\ DupsRootedAt(v) > 0
          /\ \E w \in Edges : TotalScore(w) > min_score

----------------------------------------------------------------------------
\* decompose: the clades it removed, and what came out.

\* The child that stayed at duplication vertex n, in the tree as tagged.
Kept(n) ==
    IF Parsed.children[n][1] # delete[n] THEN Parsed.children[n][1]
    ELSE Parsed.children[n][2]

\* Whether the clade removed at n is one of the trees put out before the
\* rest of the tree.
CladeEmitted(n) == \E i \in 1..(Len(out) - 1) : out[i].tree.root = delete[n]

\* The leaves that hung from a removed clade that was not put out.
SuppressedLeaves ==
    UNION {{label[m] : m \in LeavesOf(Parsed.children, delete[n])} :
              n \in {d \in Dups : ~CladeEmitted(d)}}

\* C3: no leaf is in two of the trees decompose returns; without max_only
\* and no_subsets every leaf of the tree is in one of them; with either
\* flag the leaves that are in none hung from a clade that was not put out.
C3_OutputsPartitionLeaves ==
    mode = "decompose" =>
        LET all == {label[m] : m \in LeavesOf(Parsed.children, Parsed.root)}
            got == UNION {LeafLabels(out[i]) : i \in 1..Len(out)}
        IN  /\ \A i, j \in 1..Len(out) :
                  i # j => LeafLabels(out[i]) \cap LeafLabels(out[j]) = {}
            /\ got \subseteq all
            /\ (~args.max_only /\ ~args.no_subsets) => got = all
            /\ (all \ got) \subseteq SuppressedLeaves

\* C3 witness: a decomposition into three trees or more, nothing held back.
C3_Witness ==
    /\ mode = "decompose"
    /\ ~args.max_only /\ ~args.no_subsets
    /\ Len(out) >= 3
    /\ \E i \in 1..Len(out) : Cardinality(LeafLabels(out[i])) >= 2

\* C8: without max_only, the clade removed at a duplication vertex is put
\* out unless no_subsets is set and its species are a subset of the species
\* of the clade that stays, whichever child is the one removed.
C8_CladeEmittedUnlessSubset ==
    (mode = "decompose" /\ ~args.max_only) =>
        \A n \in Dups :
            CladeEmitted(n) <=>
                ~(args.no_subsets /\ s[delete[n]] \subseteq s[Kept(n)])

\* C9 as claimed: the child with strictly fewer species is removed, and on
\* equal numbers the first child is removed.
C9_TieRemovesFirst ==
    mode = "decompose" =>
        \A n \in Dups :
            LET left == Parsed.children[n][1]
                right == Parsed.children[n][2]
            IN  delete[n] = IF Cardinality(s[left]) <= Cardinality(s[right])
                            THEN left ELSE right

\* C9, amended: the child with strictly fewer species is removed, and on
\* equal numbers the second child is removed and the first one stays.
C9_TieRemovesSecond ==
    mode = "decompose" =>
        \A n \in Dups :
            LET left == Parsed.children[n][1]
                right == Parsed.children[n][2]
            IN  /\ Cardinality(s[left]) < Cardinality(s[right]) => delete[n] = left
                /\ Cardinality(s[right]) < Cardinality(s[left]) => delete[n] = right
                /\ Cardinality(s[left]) = Cardinality(s[right]) =>
                      /\ delete[n] = right
                      /\ Kept(n) = left

\* C9 witness: decompose has met a tie, a vertex whose first child has
\* fewer species, and one whose second child has fewer.
C9_Witness ==
    /\ mode = "decompose"
    /\ \E n \in Dups : Cardinality(s[Parsed.children[n][1]])
                           = Cardinality(s[Parsed.children[n][2]])
                       /\ delete[n] = Parsed.children[n][2]
    /\ \E n \in Dups : delete[n] = Parsed.children[n][1]

----------------------------------------------------------------------------
\* sample

SingleCopy(t) ==
    \A m1, m2 \in LeavesOf(t.tree.children, t.tree.root) :
        m1 # m2 => Species(t.label[m1]) # Species(t.label[m2])

\* C4: every tree sample returns is single-copy: no two of its leaves bear
\* the same species.
C4_SamplesSingleCopy ==
    mode = "sample" => \A i \in 1..Len(out) : SingleCopy(out[i])

\* C4 witness: two samples of a tree with two duplications or more, drawn
\* differently, each with two leaves or more.
C4_Witness ==
    /\ mode = "sample"
    /\ n_dup >= 2
    /\ Len(out) >= 2
    /\ out[1] # out[2]
    /\ \A i \in 1..Len(out) : Cardinality(LeafLabels(out[i])) >= 2

\* C10: after every pass of sample's loop the tagged tree is whole again:
\* the same root, at every vertex the same children as before the pass,
\* each once, and the tags and species sets it was given by tag; every
\* duplication vertex has its two children at the start of the next pass.
C10_TreeRestored ==
    (mode = "sample" /\ pc = "sampling") =>
        LET before == Parsed
            tagged == tag_tree(before, label)
        IN  /\ tree.root = before.root
            /\ \A n \in Nodes :
                  /\ Range(tree.children[n]) = Range(before.children[n])
                  /\ Len(tree.children[n]) = Len(before.children[n])
            /\ tag = tagged.tag
            /\ s = tagged.s
            /\ \A n \in Dups : Len(tree.children[n]) = 2

\* C10 witness: a pass is over in which a duplication vertex lay inside the
\* subtree that another duplication vertex lost, and lost a child itself.
C10_Witness ==
    /\ mode = "sample"
    /\ pc = "sampling"
    /\ iter >= 1
    /\ LET before == Parsed
       IN  \E n, m \in Dups :
               /\ m # n
               /\ m \in Subtree(before.children, delete[n])
               /\ delete[m] # None

\* The samples of the line in hand when main is run on that line alone:
\* rerooted, tagged, and sampled from the seeded generator.
RECURSIVE SamplesFrom(_, _, _, _, _)
SamplesFrom(t, tg, del, state, n) ==
    IF n = 0 THEN <<>>
    ELSE LET res == SampleOnce(t, tg, label, del, stream, state)
         IN  <<res.copy>> \o SamplesFrom(res.tree, tg, res.delete, res.rng, n - 1)

SamplesAlone ==
    LET g == get_min_root(Parsed, label)
        tagged == tag_tree(reroot(Parsed, g.best_root), label)
    IN  SamplesFrom(tagged.tree, tagged.tag, [n \in Nodes |-> None], Seed,
            n_samples(args.rand_sampling_method, tagged.n_dup))

----------------------------------------------------------------------------
\* The output loop of main.

\* C5: for the next tree main takes from out, trivial is True exactly when
\* the tree, unrooted and with unifurcations suppressed, has at most 3
\* leaves; so that every line written has 4 leaves or more.
C5_TrivialIffAtMostThreeLeaves ==
    /\ (pc = "emit" /\ out # <<>>) =>
          (trivial(Emitted(Head(out))) <=> LineLeaves(Emitted(Head(out))) <= 3)
    /\ \A i \in 1..Len(fo) : LineLeaves(fo[i]) >= 4

====
